---- MODULE Spec2Model ----
(***************************************************************************)
(* SmartBay parking service: the request_slot / release_slot handlers of   *)
(* parking_service.py running as concurrent threads (SocketIO              *)
(* async_mode='threading') over one shared ParkingLot engine.              *)
(*                                                                         *)
(* The handlers are translated from src/parking_service.py.  The engine    *)
(* (parking_models: ParkingLot, Vehicle, Slot, ParkingRules) is not part   *)
(* of the sources; it is modelled from spec.md sections 3, 4 and 5: every  *)
(* engine operation is one atomic step (one engine-wide lock).             *)
(*                                                                         *)
(* Time is counted in ticks, TicksPerHour ticks to the hour.  Amounts of   *)
(* money are held in units of 1/TicksPerHour of the currency unit, so that *)
(* a penalty for a fraction of an hour is exact: Money(100) is 100 units.  *)
(***************************************************************************)
EXTENDS Integers, Sequences, FiniteSets, TLC

VARIABLES
    slots,       \* ParkingLot slot inventory: slot id -> mutable fields
    tickets,     \* ParkingLot ticket -> slot id map (active tickets)
    vip_passes,  \* ParkingLot.vip_passes: plate -> optional expiry
    warnings,    \* ParkingLot warning registry: plate -> count
    next_ticket, \* ticket-id generator
    now,         \* datetime.now(), in ticks
    handlers,    \* one record per handler thread
    exits,       \* history: ticket -> number of successful process_vehicle_exit calls
    departed,    \* history: plates that have left the lot at least once
    returning,   \* history: tickets issued to a plate that had left before
    published    \* history: tickets sent to a client in an event or a broadcast

vars == <<slots, tickets, vip_passes, warnings, next_ticket, now, handlers,
          exits, departed, returning, published>>

(* ------------------------------ bounds -------------------------------- *)
MaxTickets == 2
MaxHours == 25
FeeHours == 50
SuspHours == 75
SuspTickets == 4
FeeTickets == 2
TicksPerHour == 2
SlotsPerSection == 1
VipTickets == 2
VipHours == 2
AllocTickets == 3
StatusTickets == 2
StatusHours == 25
PlateTickets == 2

(* ------------------------- optional values ---------------------------- *)
None == <<>>
Some(x) == <<x>>
Val(o) == o[1]

(* --------------------------- policy tables ---------------------------- *)
WarningThreshold == 3
VipPassDays == 30
RegularTimeLimit == 24
VipTimeLimit == 48
SmallDailyRate == 100
MediumDailyRate == 150
LargeDailyRate == 200
ReEntryFee == 50
PenaltyPerHour == 20

Hours(h) == h * TicksPerHour
Money(x) == x * TicksPerHour

VehicleType == {"Small", "Medium", "Large"}
CustomerType == {"Regular", "VIP"}
Section == {"Regular", "EV", "VIP"}
Plates == {"P1", "P2"}

TIME_LIMITS(customer_type) ==
    IF customer_type = "VIP" THEN VipTimeLimit ELSE RegularTimeLimit

DAILY_RATES(vehicle_type) ==
    CASE vehicle_type = "Small" -> SmallDailyRate
      [] vehicle_type = "Medium" -> MediumDailyRate
      [] vehicle_type = "Large" -> LargeDailyRate

(* ------------------------------ entities ------------------------------ *)
Vehicle(vehicle_type, customer_type, license_plate) ==
    [vehicle_type |-> vehicle_type, customer_type |-> customer_type,
     license_plate |-> license_plate, ticket_id |-> None,
     re_entry_count |-> 0, vip_pass_expiry |-> None]

record_re_entry(vehicle) ==
    [vehicle EXCEPT !.re_entry_count = @ + 1]

SlotIds ==
    {[level |-> l, vehicle_type |-> vt, section |-> s, n |-> k] :
        l \in {1, 2}, vt \in VehicleType, s \in Section, k \in 1..SlotsPerSection}

EmptySlot == [is_occupied |-> FALSE, vehicle |-> None, allocation_time |-> None]

(* ------------------- engine: queries (spec 4.2) ----------------------- *)
get_all_slots == SlotIds

get_occupied_slots == {s \in SlotIds : slots[s].is_occupied}

\* the occupied slot, if any, that holds a vehicle with this plate
SlotsOfPlate(plate) ==
    {s \in SlotIds : slots[s].is_occupied /\ slots[s].vehicle # None
                     /\ Val(slots[s].vehicle).license_plate = plate}

\* validateEntry: suspension, then EV intent, then no double parking.
\* The EV check compares the caller's declared intent with itself (the
\* vehicle carries no EV attribute), so it never rejects.
validate_vehicle_entry(vehicle, is_ev) ==
    IF warnings[vehicle.license_plate] >= WarningThreshold
    THEN [can_enter |-> FALSE, reason |-> "suspended"]
    ELSE IF SlotsOfPlate(vehicle.license_plate) # {}
    THEN [can_enter |-> FALSE, reason |-> "already parked"]
    ELSE [can_enter |-> TRUE, reason |-> ""]

(* ------------------- engine: allocateSlot (spec 4.2) ------------------ *)
PreferredSection(vehicle, is_ev) ==
    IF is_ev THEN "EV"
    ELSE IF vehicle.customer_type = "VIP" THEN "VIP" ELSE "Regular"

\* mutant of FreeSlots: the occupancy flag is not looked at
FreeSlotsAnyOccupancy(vehicle_type, section) ==
    {s \in SlotIds : s.vehicle_type = vehicle_type /\ s.section = section}

FreeSlots(vehicle_type, section) ==
    {s \in SlotIds : s.vehicle_type = vehicle_type /\ s.section = section
                     /\ ~slots[s].is_occupied}

\* level ascending, then lowest slot number
Lowest(S) ==
    CHOOSE s \in S : \A t \in S :
        s.level < t.level \/ (s.level = t.level /\ s.n <= t.n)

\* mutant of find_slot: no fallback to the Regular section
find_slot_preferred_only(vehicle, is_ev) ==
    LET pref == FreeSlots(vehicle.vehicle_type, PreferredSection(vehicle, is_ev))
    IN  IF pref # {} THEN Some(Lowest(pref)) ELSE None

find_slot(vehicle, is_ev) ==
    LET pref == FreeSlots(vehicle.vehicle_type, PreferredSection(vehicle, is_ev))
        fall == FreeSlots(vehicle.vehicle_type, "Regular")
    IN  IF pref # {} THEN Some(Lowest(pref))
        ELSE IF fall # {} THEN Some(Lowest(fall))
        ELSE None

\* the vehicle as the engine leaves it: a fresh ticket id when a slot was found
parked_vehicle(vehicle, found) ==
    IF found = None THEN vehicle
    ELSE [vehicle EXCEPT !.ticket_id = Some(next_ticket)]

\* allocate_slot: one critical section.  It returns find_slot(vehicle, is_ev).
allocate_slot(vehicle, is_ev) ==
    LET found == find_slot(vehicle, is_ev)
        parked == parked_vehicle(vehicle, found)
    IN  IF found = None
        THEN UNCHANGED <<slots, tickets, next_ticket>>
        ELSE /\ slots' = [slots EXCEPT ![Val(found)] =
                             [is_occupied |-> TRUE, vehicle |-> Some(parked),
                              allocation_time |-> Some(now)]]
             /\ tickets' = [t \in DOMAIN tickets \cup {next_ticket} |->
                               IF t = next_ticket THEN Val(found) ELSE tickets[t]]
             /\ next_ticket' = next_ticket + 1

(* ------------------- policy engine: fees (spec 4.1) ------------------- *)
CeilDiv(a, b) == (a + b - 1) \div b

PassCovers(vehicle, allocation_time) ==
    /\ vehicle.customer_type = "VIP"
    /\ vehicle.vip_pass_expiry # None
    /\ allocation_time <= Val(vehicle.vip_pass_expiry)

\* mutant of compute_exit_fee: the penalty is folded into base_fee
compute_exit_fee_penalty_in_base(vehicle, allocation_time, exit_time) ==
    LET elapsed == exit_time - allocation_time
        limit == Hours(TIME_LIMITS(vehicle.customer_type))
        overstay == elapsed > limit
    IN  [base_fee |-> (IF PassCovers(vehicle, allocation_time) THEN 0
                       ELSE Money(DAILY_RATES(vehicle.vehicle_type))
                            * CeilDiv(elapsed, Hours(24)))
                      + (IF overstay THEN PenaltyPerHour * (elapsed - limit) ELSE 0),
         re_entry_fee |-> IF vehicle.re_entry_count > 0 THEN Money(ReEntryFee) ELSE 0,
         overstay |-> overstay,
         penalty_ticks |-> 0]

\* mutant of compute_exit_fee: only whole hours over the limit are charged
compute_exit_fee_whole_hours(vehicle, allocation_time, exit_time) ==
    LET elapsed == exit_time - allocation_time
        limit == Hours(TIME_LIMITS(vehicle.customer_type))
        overstay == elapsed > limit
    IN  [base_fee |-> IF PassCovers(vehicle, allocation_time) THEN 0
                      ELSE Money(DAILY_RATES(vehicle.vehicle_type))
                           * CeilDiv(elapsed, Hours(24)),
         re_entry_fee |-> IF vehicle.re_entry_count > 0 THEN Money(ReEntryFee) ELSE 0,
         overstay |-> overstay,
         penalty_ticks |-> IF overstay
                           THEN Hours((elapsed - limit) \div TicksPerHour) ELSE 0]

\* elapsed and penalty_ticks are in ticks, the fees in Money units
compute_exit_fee(vehicle, allocation_time, exit_time) ==
    LET elapsed == exit_time - allocation_time
        limit == Hours(TIME_LIMITS(vehicle.customer_type))
        overstay == elapsed > limit
    IN  [base_fee |-> IF PassCovers(vehicle, allocation_time) THEN 0
                      ELSE Money(DAILY_RATES(vehicle.vehicle_type))
                           * CeilDiv(elapsed, Hours(24)),
         re_entry_fee |-> IF vehicle.re_entry_count > 0 THEN Money(ReEntryFee) ELSE 0,
         overstay |-> overstay,
         penalty_ticks |-> IF overstay THEN elapsed - limit ELSE 0]

(* ------------------- engine: processExit (spec 4.2) ------------------- *)
exit_result(ticket) ==
    IF ticket \notin DOMAIN tickets
    THEN [success |-> FALSE, reason |-> "ticket not found"]
    ELSE LET sid == tickets[ticket]
             vehicle == Val(slots[sid].vehicle)
             fee == compute_exit_fee(vehicle, Val(slots[sid].allocation_time), now)
         IN  [success |-> TRUE, reason |-> "", vehicle |-> vehicle, slot |-> sid,
              base_fee |-> fee.base_fee, re_entry_fee |-> fee.re_entry_fee,
              total_fee |-> fee.base_fee + fee.re_entry_fee
                            + PenaltyPerHour * fee.penalty_ticks,
              overstay |-> fee.overstay,
              warnings |-> warnings[vehicle.license_plate]
                           + (IF fee.overstay THEN 1 ELSE 0),
              exit_time |-> now]

\* mutant of process_vehicle_exit: the allocation timestamp is not cleared
process_vehicle_exit_keeps_time(ticket) ==
    LET res == exit_result(ticket)
    IN  IF ~res.success
        THEN UNCHANGED <<slots, tickets, warnings>>
        ELSE /\ warnings' = [warnings EXCEPT ![res.vehicle.license_plate] = res.warnings]
             /\ slots' = [slots EXCEPT ![res.slot] =
                             [EmptySlot EXCEPT !.allocation_time = slots[res.slot].allocation_time]]
             /\ tickets' = [t \in DOMAIN tickets \ {ticket} |-> tickets[t]]

\* mutant of process_vehicle_exit: the ticket -> slot mapping is not removed
process_vehicle_exit_keeps_ticket(ticket) ==
    LET res == exit_result(ticket)
    IN  IF ~res.success
        THEN UNCHANGED <<slots, tickets, warnings>>
        ELSE /\ warnings' = [warnings EXCEPT ![res.vehicle.license_plate] = res.warnings]
             /\ slots' = [slots EXCEPT ![res.slot] = EmptySlot]
             /\ UNCHANGED tickets

\* process_vehicle_exit: one critical section (lookup, fee, warning, clear the
\* slot, drop the ticket).  It returns exit_result(ticket).
process_vehicle_exit(ticket) ==
    LET res == exit_result(ticket)
    IN  IF ~res.success
        THEN UNCHANGED <<slots, tickets, warnings>>
        ELSE /\ warnings' = [warnings EXCEPT ![res.vehicle.license_plate] = res.warnings]
             /\ slots' = [slots EXCEPT ![res.slot] = EmptySlot]
             /\ tickets' = [t \in DOMAIN tickets \ {ticket} |-> tickets[t]]

\* check_expired_slots: occupied slots over their customer's time limit
check_expired_slots ==
    {s \in get_occupied_slots :
        now - Val(slots[s].allocation_time)
            > Hours(TIME_LIMITS(Val(slots[s].vehicle).customer_type))}

(* ------------------- transport layer: request parsing ----------------- *)
\* str.capitalize() on the strings the requests carry
Capitalize(str) ==
    CASE str \in {"small", "Small", "SMALL"} -> "Small"
      [] str \in {"medium", "Medium"} -> "Medium"
      [] str \in {"large", "Large"} -> "Large"
      [] str \in {"regular", "Regular"} -> "Regular"
      [] str \in {"vip", "VIP", "Vip"} -> "Vip"
      [] str = "bus" -> "Bus"
      [] str = "staff" -> "Staff"
      [] OTHER -> str

customer_type_str(raw) ==
    IF Capitalize(raw) = "Vip" THEN "VIP" ELSE Capitalize(raw)

\* str.strip() on the plates the requests carry
Strip(str) ==
    CASE str = " P1 " -> "P1"
      [] str = "  " -> ""
      [] OTHER -> str

\* entry_time is an ISO string (line 64); a string that is cut is the
\* sequence of its characters
Morning == <<"2", "0", "2", "4", "-", "0", "1", "-", "0", "1", "T", "1", "0", ":", "0", "0">>

Evening == <<"2", "0", "2", "4", "-", "0", "1", "-", "0", "1", "T", "1", "8", ":", "3", "0">>

NextDay == <<"2", "0", "2", "4", "-", "0", "1", "-", "0", "2", "T", "0", "9", ":", "0", "0">>

\* the default of data.get('entry_time', 'NO-TIME'), line 84
NO_TIME == <<"N", "O", "-", "T", "I", "M", "E">>

\* str[:10]
FirstTen(str) == SubSeq(str, 1, IF Len(str) < 10 THEN Len(str) ELSE 10)

NotDash(c) == c # "-"

\* str.replace('-', '')
RemoveDashes(str) == SelectSeq(str, NotDash)

\* entry_time[:10].replace('-', '')
DateOf(entry_time) == RemoveDashes(FirstTen(entry_time))

\* f"AUTO-{...}", line 84; the plate is a string again
AutoPlate(entry_time) ==
    LET date == DateOf(IF entry_time = None THEN NO_TIME ELSE Val(entry_time))
    IN  CASE date = <<"N", "O", "T", "I", "M", "E">> -> "AUTO-NOTIME"
          [] date = <<"2", "0", "2", "4", "0", "1", "0", "1">> -> "AUTO-20240101"
          [] date = <<"2", "0", "2", "4", "0", "1", "0", "2">> -> "AUTO-20240102"

\* lines 80-84; a request without the key license_plate carries ''
license_plate_of(data) ==
    IF Strip(data.license_plate) = "" THEN AutoPlate(data.entry_time)
    ELSE Strip(data.license_plate)

\* the keys of the registries: the plates of the requests and the plates that
\* line 84 generates
AllPlates == Plates \cup {"AUTO-NOTIME", "AUTO-20240101", "AUTO-20240102"}

(* ------------------------- handler threads ---------------------------- *)
\* two handler threads run side by side
Threads == {1, 2}

\* a handler's locals: data .. slot belong to handle_request_slot and
\* handle_release_slot, occupied_slots .. levels to emit_status and api_status,
\* entries (the list of lines 435-447) and entry (its item under way) to
\* api_status
Idle ==
    [kind |-> "idle", pc |-> "idle", data |-> None, vehicle |-> None,
     is_ev |-> FALSE, ticket |-> None, result |-> None, slot |-> None,
     occupied_slots |-> {}, cursor |-> 0, sub |-> 0, occupied |-> FALSE,
     levels |-> {}, entries |-> {}, entry |-> <<>>, events |-> <<>>]

Error(message) == [name |-> "error", message |-> message]

InFlightRequests ==
    {i \in Threads : handlers[i].kind = "request"
                     /\ handlers[i].pc \in {"vip_check", "vip_create", "vip_use",
                                            "validate", "allocate"}}

Init ==
    /\ slots = [s \in SlotIds |-> EmptySlot]
    /\ tickets = <<>>
    /\ vip_passes = [p \in AllPlates |-> None]
    /\ warnings = [p \in AllPlates |-> 0]
    /\ next_ticket = 1
    /\ now = 0
    /\ handlers = [i \in Threads |-> Idle]
    /\ exits = <<>>
    /\ departed = {}
    /\ returning = {}
    /\ published = {}

Engine == <<slots, tickets, vip_passes, warnings, next_ticket>>

History == <<exits, departed, returning, published>>

\* mutant of RequestSlot: a class outside the enumeration is taken as Small
\* or Regular instead of raising ValueError
RequestSlotGuessClass(i, data) ==
    /\ handlers[i].kind = "idle"
    /\ handlers' = [handlers EXCEPT ![i] =
         IF data.vehicle_type = None \/ data.customer_type = None
         THEN [Idle EXCEPT !.kind = "request", !.pc = "done", !.data = Some(data),
                 !.events =
                 <<Error("Missing required information. Please provide vehicle type and customer type.")>>]
         ELSE LET vt == Capitalize(Val(data.vehicle_type))
                  ct == customer_type_str(Val(data.customer_type))
                  vehicle == Vehicle(IF vt \in VehicleType THEN vt ELSE "Small",
                                     IF ct \in CustomerType THEN ct ELSE "Regular",
                                     license_plate_of(data))
              IN  [Idle EXCEPT !.kind = "request", !.data = Some(data),
                               !.pc = IF vehicle.customer_type = "VIP"
                                      THEN "vip_check" ELSE "validate",
                               !.vehicle = Some(vehicle),
                               !.is_ev = data.is_ev]]
    /\ UNCHANGED <<Engine, History, now>>

\* handle_request_slot, lines 72-92: parse the request, build the Vehicle
RequestSlot(i, data) ==
    /\ handlers[i].kind = "idle"
    /\ handlers' = [handlers EXCEPT ![i] =
         IF data.vehicle_type = None \/ data.customer_type = None
         THEN [Idle EXCEPT !.kind = "request", !.pc = "done", !.data = Some(data),
                 !.events =
                 <<Error("Missing required information. Please provide vehicle type and customer type.")>>]
         ELSE IF Capitalize(Val(data.vehicle_type)) \notin VehicleType
                 \/ customer_type_str(Val(data.customer_type)) \notin CustomerType
         THEN [Idle EXCEPT !.kind = "request", !.pc = "done", !.data = Some(data),
                 !.events =
                 <<Error("Invalid vehicle type or customer type provided.")>>]
         ELSE LET vehicle == Vehicle(Capitalize(Val(data.vehicle_type)),
                                     customer_type_str(Val(data.customer_type)),
                                     license_plate_of(data))
              IN  [Idle EXCEPT !.kind = "request", !.data = Some(data),
                               !.pc = IF vehicle.customer_type = "VIP"
                                      THEN "vip_check" ELSE "validate",
                               !.vehicle = Some(vehicle),
                               !.is_ev = data.is_ev]]
    /\ UNCHANGED <<Engine, History, now>>

\* lines 95-97: the handler reads parking_lot.vip_passes directly
VipCheck(i) ==
    /\ handlers[i].kind = "request" /\ handlers[i].pc = "vip_check"
    /\ LET plate == Val(handlers[i].vehicle).license_plate
       IN  handlers' = [handlers EXCEPT ![i].pc =
             IF vip_passes[plate] = None \/ now > Val(vip_passes[plate])
             THEN "vip_create" ELSE "vip_use"]
    /\ UNCHANGED <<Engine, History, now>>

\* mutant of VipCreate: line 101 is missing, the vehicle does not get the expiry
VipCreateNotAttached(i) ==
    /\ handlers[i].kind = "request" /\ handlers[i].pc = "vip_create"
    /\ LET plate == Val(handlers[i].vehicle).license_plate
           expiry == now + Hours(24 * VipPassDays)
       IN  /\ vip_passes' = [vip_passes EXCEPT ![plate] = Some(expiry)]
           /\ handlers' = [handlers EXCEPT ![i].pc = "validate"]
    /\ UNCHANGED <<slots, tickets, warnings, next_ticket, History, now>>

\* lines 98-102: create or renew the pass
VipCreate(i) ==
    /\ handlers[i].kind = "request" /\ handlers[i].pc = "vip_create"
    /\ LET plate == Val(handlers[i].vehicle).license_plate
           expiry == now + Hours(24 * VipPassDays)
       IN  /\ vip_passes' = [vip_passes EXCEPT ![plate] = Some(expiry)]
           /\ handlers' = [handlers EXCEPT
                 ![i].vehicle = Some([Val(@) EXCEPT !.vip_pass_expiry = Some(expiry)]),
                 ![i].pc = "validate"]
    /\ UNCHANGED <<slots, tickets, warnings, next_ticket, History, now>>

\* lines 103-106: attach the existing pass
VipUse(i) ==
    /\ handlers[i].kind = "request" /\ handlers[i].pc = "vip_use"
    /\ LET plate == Val(handlers[i].vehicle).license_plate
       IN  handlers' = [handlers EXCEPT
                 ![i].vehicle = Some([Val(@) EXCEPT !.vip_pass_expiry = vip_passes[plate]]),
                 ![i].pc = "validate"]
    /\ UNCHANGED <<Engine, History, now>>

\* mutant of Validate: the return of line 113 is missing
ValidateNoReturn(i) ==
    /\ handlers[i].kind = "request" /\ handlers[i].pc = "validate"
    /\ LET vehicle == Val(handlers[i].vehicle)
           res == validate_vehicle_entry(vehicle, handlers[i].is_ev)
       IN  handlers' = [handlers EXCEPT ![i] =
             IF ~res.can_enter
             THEN [@ EXCEPT !.pc = "allocate", !.events = Append(@, Error(res.reason))]
             ELSE [@ EXCEPT !.pc = "allocate"]]
    /\ UNCHANGED <<Engine, History, now>>

\* lines 108-117: validate_vehicle_entry, then the re-entry record
Validate(i) ==
    /\ handlers[i].kind = "request" /\ handlers[i].pc = "validate"
    /\ LET vehicle == Val(handlers[i].vehicle)
           res == validate_vehicle_entry(vehicle, handlers[i].is_ev)
       IN  handlers' = [handlers EXCEPT ![i] =
             IF ~res.can_enter
             THEN [@ EXCEPT !.pc = "done", !.events = Append(@, Error(res.reason))]
             ELSE [@ EXCEPT !.pc = "allocate",
                            !.vehicle = IF vehicle.re_entry_count > 0
                                        THEN Some(record_re_entry(vehicle))
                                        ELSE Some(vehicle)]]
    /\ UNCHANGED <<Engine, History, now>>

\* mutant of Allocate: the test of line 125 is inverted, a slot that was
\* allocated is answered with the no-slot error
AllocateInverted(i) ==
    /\ handlers[i].kind = "request" /\ handlers[i].pc = "allocate"
    /\ LET vehicle == Val(handlers[i].vehicle)
           found == find_slot(vehicle, handlers[i].is_ev)
       IN  /\ allocate_slot(vehicle, handlers[i].is_ev)
           /\ handlers' = [handlers EXCEPT ![i] =
                IF found # None
                THEN [@ EXCEPT !.pc = "done", !.slot = found,
                               !.vehicle = Some(parked_vehicle(vehicle, found)),
                               !.events = Append(@,
                        Error("No suitable slot available. Please try again later."))]
                ELSE [@ EXCEPT !.pc = "done", !.events = Append(@,
                        Error("Internal server error. Please try again."))]]
           /\ returning' = IF found # None /\ vehicle.license_plate \in departed
                           THEN returning \cup {next_ticket} ELSE returning
    /\ UNCHANGED <<vip_passes, warnings, exits, departed, published, now>>

\* lines 121-125 and 148-150: allocate_slot and the no-slot answer
Allocate(i) ==
    /\ handlers[i].kind = "request" /\ handlers[i].pc = "allocate"
    /\ LET vehicle == Val(handlers[i].vehicle)
           found == find_slot(vehicle, handlers[i].is_ev)
       IN  /\ allocate_slot(vehicle, handlers[i].is_ev)
           /\ handlers' = [handlers EXCEPT ![i] =
                IF found = None
                THEN [@ EXCEPT !.pc = "done", !.events = Append(@,
                        Error("No suitable slot available. Please try again later."))]
                ELSE [@ EXCEPT !.pc = "emit_allocated", !.slot = found,
                               !.vehicle = Some(parked_vehicle(vehicle, found))]]
           /\ returning' = IF found # None /\ vehicle.license_plate \in departed
                           THEN returning \cup {next_ticket} ELSE returning
    /\ UNCHANGED <<vip_passes, warnings, exits, departed, published, now>>

\* lines 127-144: the receipt and the slot_allocated event read the live slot;
\* slot.allocation_time is None once the slot has been released (TypeError,
\* caught at line 158)
EmitAllocated(i) ==
    /\ handlers[i].kind = "request" /\ handlers[i].pc = "emit_allocated"
    /\ LET sid == Val(handlers[i].slot)
           vehicle == Val(handlers[i].vehicle)
       IN  handlers' = [handlers EXCEPT ![i] =
             IF slots[sid].allocation_time = None
             THEN [@ EXCEPT !.pc = "done", !.events = Append(@,
                     Error("Internal server error. Please try again."))]
             ELSE [@ EXCEPT !.pc = "status", !.events = Append(@,
                     [name |-> "slot_allocated", slot_id |-> sid,
                      ticket |-> Val(vehicle.ticket_id),
                      allocation_time |-> Val(slots[sid].allocation_time)])]]
           /\ published' = IF slots[sid].allocation_time = None THEN published
                           ELSE published \cup {Val(vehicle.ticket_id)}
    /\ UNCHANGED <<Engine, exits, departed, returning, now>>

(* ---------------------- emit_status, lines 337-384 -------------------- *)
\* the order in which lines 348-358 walk all_slots: level, vehicle type,
\* section, slot number
TypeOrder == <<"Small", "Medium", "Large">>

SectionOrder == <<"Regular", "EV", "VIP">>

Rank(s) ==
    LET t == CHOOSE k \in 1..Len(TypeOrder) : TypeOrder[k] = s.vehicle_type
        c == CHOOSE k \in 1..Len(SectionOrder) : SectionOrder[k] = s.section
    IN  (((s.level - 1) * Len(TypeOrder) + (t - 1)) * Len(SectionOrder) + (c - 1))
            * SlotsPerSection + s.n

all_slots == [k \in 1..Cardinality(SlotIds) |-> CHOOSE s \in SlotIds : Rank(s) = k]

\* lines 343-344 (and 397-398): occupied_slots is the list of the slots
\* occupied now
GetOccupiedSlots(i) ==
    /\ handlers[i].kind \in {"request", "release", "api"} /\ handlers[i].pc = "status"
    /\ handlers' = [handlers EXCEPT ![i].pc = "levels",
                                    ![i].occupied_slots = get_occupied_slots,
                                    ![i].cursor = 1, ![i].sub = 1]
    /\ UNCHANGED <<Engine, History, now>>

\* lines 359-366, slot_data of a slot whose reads all see the present state.
\* Each slot is read three times: slot.is_occupied for 'occupied' (sub 1),
\* slot.is_occupied as the test of line 364 (sub 2) and, when the test holds,
\* slot.vehicle (sub 3).
slot_data(s) ==
    [slot |-> s, occupied |-> slots[s].is_occupied,
     ticket |-> IF slots[s].is_occupied THEN Val(slots[s].vehicle).ticket_id
                ELSE None]

\* slot_data of the slot at which handler i stands after one or two of its
\* reads: 'occupied' was read before, the test too when sub = 3
resumed_data(i) ==
    LET s == all_slots[handlers[i].cursor]
        test == handlers[i].sub = 3 \/ slots[s].is_occupied
    IN  [slot |-> s, occupied |-> handlers[i].occupied,
         ticket |-> IF test /\ slots[s].vehicle # None
                    THEN Val(slots[s].vehicle).ticket_id ELSE None]

\* an exception inside emit_status reaches the except clause of the handler
\* that called it (lines 158-160 and 229-231); api_status has no except
\* clause, the client is sent the response 500
StatusFault(h) ==
    [h EXCEPT !.pc = "done", !.occupied_slots = {}, !.cursor = 0, !.sub = 0,
              !.occupied = FALSE, !.levels = {}, !.entries = {}, !.entry = <<>>,
              !.result = IF h.kind = "api" THEN None ELSE h.result,
              !.events = Append(@, IF h.kind = "api"
                                   THEN [name |-> "response_500"]
                                   ELSE Error("Internal server error. Please try again."))]

\* lines 347-371 (and 400-425): handler i makes the reads of the loop from where it stands
\* up to the read `stop` (the read it makes next, after other handlers have
\* run), or to the end of the loop when stop = None.  slot.vehicle is None
\* once the slot has been released: slot.vehicle.ticket_id then raises
\* AttributeError.
StatusLevels(i, stop) ==
    /\ handlers[i].kind \in {"request", "release", "api"} /\ handlers[i].pc = "levels"
    /\ LET h == handlers[i]
           fault == h.sub = 3 /\ slots[all_slots[h.cursor]].vehicle = None
           last == IF stop = None THEN Len(all_slots) ELSE Val(stop).cursor - 1
           first == IF h.sub = 1 THEN h.cursor ELSE h.cursor + 1
           resumed == IF h.sub > 1 /\ last >= h.cursor THEN {resumed_data(i)} ELSE {}
           whole == {slot_data(all_slots[k]) : k \in first..last}
           read == {d \in resumed \cup whole : d.occupied \/ d.ticket # None}
       IN  /\ stop # None =>
                /\ ~fault
                /\ Val(stop).cursor \in h.cursor..Len(all_slots)
                /\ Val(stop).sub \in 2..3
                /\ Val(stop).cursor = h.cursor => Val(stop).sub > h.sub
                /\ Val(stop).sub = 3 => slots[all_slots[Val(stop).cursor]].is_occupied
           /\ handlers' = [handlers EXCEPT ![i] =
                IF fault THEN StatusFault(h)
                ELSE IF stop = None
                THEN [h EXCEPT !.pc = "counters", !.levels = @ \cup read,
                               !.cursor = 0, !.sub = 0, !.occupied = FALSE]
                ELSE [h EXCEPT !.levels = @ \cup read,
                               !.cursor = Val(stop).cursor, !.sub = Val(stop).sub,
                               !.occupied =
                                  IF Val(stop).cursor = h.cursor /\ h.sub > 1
                                  THEN h.occupied
                                  ELSE slots[all_slots[Val(stop).cursor]].is_occupied]]
    /\ UNCHANGED <<Engine, History, now>>

\* the status broadcast, lines 373-384
status(i) ==
    [name |-> "status_update",
     total |-> Len(all_slots),
     occupied |-> Cardinality(handlers[i].occupied_slots),
     expired |-> Cardinality(check_expired_slots),
     levels |-> handlers[i].levels]

\* the tickets the broadcast shows (line 364)
status_tickets(i) ==
    {Val(d.ticket) : d \in {e \in handlers[i].levels : e.ticket # None}}

\* mutant of EmitStatus: the plates of the expired slots get a warning
EmitStatusWarns(i) ==
    /\ handlers[i].kind \in {"request", "release"} /\ handlers[i].pc = "counters"
    /\ handlers' = [handlers EXCEPT ![i] =
          [@ EXCEPT !.pc = "done", !.occupied_slots = {}, !.levels = {},
                    !.events = Append(@, status(i))]]
    /\ published' = published \cup status_tickets(i)
    /\ warnings' = [p \in AllPlates |->
          IF \E s \in check_expired_slots : Val(slots[s].vehicle).license_plate = p
          THEN warnings[p] + 1 ELSE warnings[p]]
    /\ UNCHANGED <<slots, tickets, vip_passes, next_ticket, exits, departed,
                   returning, now>>

\* lines 373-384: check_expired_slots, then socketio.emit('status_update')
EmitStatus(i) ==
    /\ handlers[i].kind \in {"request", "release"} /\ handlers[i].pc = "counters"
    /\ handlers' = [handlers EXCEPT ![i] =
          [@ EXCEPT !.pc = "done", !.occupied_slots = {}, !.levels = {},
                    !.events = Append(@, status(i))]]
    /\ published' = published \cup status_tickets(i)
    /\ UNCHANGED <<Engine, exits, departed, returning, now>>

(* ----------------------- api_status, lines 386-451 -------------------- *)
\* GET /api/status is taken by a thread; lines 397-425 are the code of
\* emit_status (GetOccupiedSlots, StatusLevels)
ApiStatus(i) ==
    /\ handlers[i].kind = "idle"
    /\ handlers' = [handlers EXCEPT ![i] = [Idle EXCEPT !.kind = "api", !.pc = "status"]]
    /\ UNCHANGED <<Engine, History, now>>

\* lines 428-433: the counters, with check_expired_slots
ApiCounters(i) ==
    /\ handlers[i].kind = "api" /\ handlers[i].pc = "counters"
    /\ handlers' = [handlers EXCEPT ![i].pc = "available", ![i].result =
          Some([total |-> Len(all_slots),
                occupied |-> Cardinality(handlers[i].occupied_slots),
                expired |-> Cardinality(check_expired_slots),
                available |-> 0])]
    /\ UNCHANGED <<Engine, History, now>>

\* line 434: get_available_slots_count; then the list of lines 435-447 starts
\* at the first slot of occupied_slots
ApiAvailable(i) ==
    /\ handlers[i].kind = "api" /\ handlers[i].pc = "available"
    /\ handlers' = [handlers EXCEPT
          ![i].pc = "occupied_slots",
          ![i].result = Some([Val(@) EXCEPT !.available =
                                 Cardinality(get_all_slots \ get_occupied_slots)]),
          ![i].cursor = 1, ![i].sub = 1, ![i].entry = <<>>]
    /\ UNCHANGED <<Engine, History, now>>

\* lines 440-444, the reads of one slot of occupied_slots:
\* slot.vehicle.vehicle_type (read 1), .customer_type (2), .license_plate (3),
\* .ticket_id (4), and slot.allocation_time, tested by read 5 and formatted
\* by read 6
occupied_read(s, k) ==
    CASE k = 1 -> Val(slots[s].vehicle).vehicle_type
      [] k = 2 -> Val(slots[s].vehicle).customer_type
      [] k = 3 -> Val(slots[s].vehicle).license_plate
      [] k = 4 -> Val(slots[s].vehicle).ticket_id
      [] k = 5 -> slots[s].allocation_time

\* the values read so far for slot s, extended to its first n values
extend(entry, s, n) ==
    [k \in 1..n |-> IF k <= Len(entry) THEN entry[k] ELSE occupied_read(s, k)]

Min(a, b) == IF a <= b THEN a ELSE b

\* lines 435-447: handler i makes the reads of the list from where it stands
\* up to the read `stop`, or to the end of the list when stop = None, and then
\* returns the response (line 427).  slot.vehicle is None once the slot has
\* been released: slot.vehicle.vehicle_type then raises AttributeError, and
\* so does slot.allocation_time.isoformat() after a successful test.
ApiOccupiedSlots(i, stop) ==
    /\ handlers[i].kind = "api" /\ handlers[i].pc = "occupied_slots"
    /\ LET h == handlers[i]
           listed == {k \in 1..Len(all_slots) : all_slots[k] \in h.occupied_slots}
           inside == h.sub > 1
           first == IF inside THEN h.cursor + 1 ELSE h.cursor
           last == IF stop = None THEN Len(all_slots) ELSE Val(stop).cursor - 1
           started == {k \in listed : first <= k
                                      /\ k <= IF stop = None THEN last ELSE last + 1}
           fault == \/ inside /\ h.sub <= 4 /\ slots[all_slots[h.cursor]].vehicle = None
                    \/ inside /\ h.sub = 6
                       /\ slots[all_slots[h.cursor]].allocation_time = None
                    \/ \E k \in started : slots[all_slots[k]].vehicle = None
           resumed == IF inside /\ last >= h.cursor
                      THEN {<<all_slots[h.cursor]>> \o extend(h.entry, all_slots[h.cursor], 5)}
                      ELSE {}
           whole == {<<all_slots[k]>> \o extend(<<>>, all_slots[k], 5) :
                        k \in {m \in listed : first <= m /\ m <= last}}
           entries == h.entries \cup resumed \cup whole
       IN  /\ stop # None =>
                /\ ~fault
                /\ Val(stop).cursor \in listed
                /\ Val(stop).cursor >= h.cursor
                /\ Val(stop).sub \in 2..6
                /\ Val(stop).cursor = h.cursor => Val(stop).sub > h.sub
                /\ Val(stop).sub = 6 =>
                      slots[all_slots[Val(stop).cursor]].allocation_time # None
           /\ handlers' = [handlers EXCEPT ![i] =
                IF fault THEN StatusFault(h)
                ELSE IF stop = None
                THEN [Idle EXCEPT !.kind = "api", !.pc = "done", !.events =
                        <<[name |-> "response_200", counters |-> Val(h.result),
                           occupied_slots |-> entries, levels |-> h.levels]>>]
                ELSE [h EXCEPT !.entries = entries,
                               !.cursor = Val(stop).cursor, !.sub = Val(stop).sub,
                               !.entry =
                                  extend(IF Val(stop).cursor = h.cursor /\ inside
                                         THEN h.entry ELSE <<>>,
                                         all_slots[Val(stop).cursor],
                                         Min(Val(stop).sub - 1, 4))]]
           /\ published' = IF fault \/ stop # None THEN published
                           ELSE published
                                \cup {Val(d.ticket) : d \in {e \in h.levels : e.ticket # None}}
                                \cup {Val(e[5]) : e \in entries}
    /\ UNCHANGED <<Engine, exits, departed, returning, now>>

\* handle_release_slot, lines 180-185
ReleaseSlot(i, ticket) ==
    /\ handlers[i].kind = "idle"
    /\ handlers' = [handlers EXCEPT ![i] =
         IF ticket = None
         THEN [Idle EXCEPT !.kind = "release", !.pc = "done",
                           !.events = <<Error("Ticket ID is required.")>>]
         ELSE [Idle EXCEPT !.kind = "release", !.pc = "exit", !.ticket = ticket]]
    /\ UNCHANGED <<Engine, History, now>>

CountExit(ticket) ==
    [t \in DOMAIN exits \cup {ticket} |->
        IF t # ticket THEN exits[t]
        ELSE IF t \in DOMAIN exits THEN exits[t] + 1 ELSE 1]

\* mutant of ProcessExit: the return of line 194 is missing; reading
\* exit_result['vehicle'] then raises, and line 231 emits a second error
ProcessExitNoReturn(i) ==
    /\ handlers[i].kind = "release" /\ handlers[i].pc = "exit"
    /\ LET res == exit_result(Val(handlers[i].ticket))
       IN  /\ process_vehicle_exit(Val(handlers[i].ticket))
           /\ handlers' = [handlers EXCEPT ![i] =
                IF ~res.success
                THEN [@ EXCEPT !.pc = "done", !.result = Some(res),
                               !.events = @ \o <<Error(res.reason),
                                    Error("Internal server error. Please try again.")>>]
                ELSE [@ EXCEPT !.pc = "emit_released", !.result = Some(res)]]
           /\ exits' = IF res.success THEN CountExit(Val(handlers[i].ticket)) ELSE exits
           /\ departed' = IF res.success
                          THEN departed \cup {res.vehicle.license_plate} ELSE departed
    /\ UNCHANGED <<vip_passes, next_ticket, returning, published, now>>

\* lines 187-194: process_vehicle_exit and the failure answer
ProcessExit(i) ==
    /\ handlers[i].kind = "release" /\ handlers[i].pc = "exit"
    /\ LET res == exit_result(Val(handlers[i].ticket))
       IN  /\ process_vehicle_exit(Val(handlers[i].ticket))
           /\ handlers' = [handlers EXCEPT ![i] =
                IF ~res.success
                THEN [@ EXCEPT !.pc = "done", !.result = Some(res),
                               !.events = Append(@, Error(res.reason))]
                ELSE [@ EXCEPT !.pc = "emit_released", !.result = Some(res)]]
           /\ exits' = IF res.success THEN CountExit(Val(handlers[i].ticket)) ELSE exits
           /\ departed' = IF res.success
                          THEN departed \cup {res.vehicle.license_plate} ELSE departed
    /\ UNCHANGED <<vip_passes, next_ticket, returning, published, now>>

\* lines 196-224: duration = exit_time - slot.allocation_time reads the live
\* slot returned by the engine; None raises TypeError, caught at line 229
EmitReleased(i) ==
    /\ handlers[i].kind = "release" /\ handlers[i].pc = "emit_released"
    /\ LET res == Val(handlers[i].result)
       IN  handlers' = [handlers EXCEPT ![i] =
             IF slots[res.slot].allocation_time = None
             THEN [@ EXCEPT !.pc = "done", !.events = Append(@,
                     Error("Internal server error. Please try again."))]
             ELSE [@ EXCEPT !.pc = "status", !.events = Append(@,
                     [name |-> "released", ticket |-> Val(handlers[i].ticket),
                      slot_id |-> res.slot, base_fee |-> res.base_fee,
                      re_entry_fee |-> res.re_entry_fee, total_fee |-> res.total_fee,
                      ticks |-> res.exit_time - Val(slots[res.slot].allocation_time),
                      overstay |-> res.overstay, warnings |-> res.warnings])]]
    /\ UNCHANGED <<Engine, History, now>>

\* the handler function returns; its thread takes the next event
HandlerReturn(i) ==
    /\ handlers[i].pc = "done"
    /\ handlers' = [handlers EXCEPT ![i] = Idle]
    /\ UNCHANGED <<Engine, History, now>>

\* the clock advances by d ticks
Tick(d) ==
    /\ now' = now + d
    /\ UNCHANGED <<Engine, History, handlers>>

(* --------------------------- specifications --------------------------- *)
Request(vehicle_type, customer_type, is_ev, license_plate) ==
    [vehicle_type |-> Some(vehicle_type), customer_type |-> Some(customer_type),
     is_ev |-> is_ev, license_plate |-> license_plate, entry_time |-> None]

\* the tickets a client can send: the ones it was sent, and besides them none
\* at all or one that was never issued (0)
KnownTickets == {Some(t) : t \in published}

ReleaseTickets == {None, Some(0)} \cup KnownTickets

\* A new handler runs on the lowest idle thread (threads are interchangeable),
\* and a request is taken only while a ticket id is left for it.
Lowest_idle(i) == \A j \in 1..(i - 1) : handlers[j].kind # "idle"

\* the slots that the next step of another handler writes
HotSlots(i) ==
    {s \in SlotIds : \E j \in Threads \ {i} :
        \/ /\ handlers[j].kind = "request" /\ handlers[j].pc = "allocate"
           /\ find_slot(Val(handlers[j].vehicle), handlers[j].is_ev) = Some(s)
        \/ /\ handlers[j].kind = "release" /\ handlers[j].pc = "exit"
           /\ Val(handlers[j].ticket) \in DOMAIN tickets
           /\ tickets[Val(handlers[j].ticket)] = s}

\* The reads of the loop of emit_status write only the handler's own locals:
\* they commute with every step of another handler but a write of the slot
\* read.  It is therefore enough to interrupt the loop between two reads of a
\* slot that another handler is about to write.
StopPoints(i) ==
    {None} \cup {Some([cursor |-> k, sub |-> u]) :
                    k \in {m \in 1..Len(all_slots) : all_slots[m] \in HotSlots(i)},
                    u \in 2..3}

TicketLeft(max_tickets) == next_ticket + Cardinality(InFlightRequests) <= max_tickets

TimeLeft(d, max_hours) == now + d <= Hours(max_hours)

\* Spec: concurrent handlers; small regular cars of two plates
Requests ==
    {Request("small", "regular", FALSE, "P1"), Request("small", "regular", FALSE, "P2")}

Durations == {Hours(RegularTimeLimit) + 1}

Next ==
    \/ \E i \in Threads :
         \/ /\ Lowest_idle(i) /\ TicketLeft(MaxTickets)
            /\ \E data \in Requests : RequestSlot(i, data)
         \/ Validate(i)
         \/ Allocate(i)
         \/ EmitAllocated(i)
         \/ GetOccupiedSlots(i)
         \/ \E stop \in StopPoints(i) : StatusLevels(i, stop)
         \/ EmitStatus(i)
         \/ /\ Lowest_idle(i)
            /\ \E ticket \in KnownTickets : ReleaseSlot(i, ticket)
         \/ ProcessExit(i)
         \/ EmitReleased(i)
         \/ HandlerReturn(i)
    \/ \E d \in Durations : TimeLeft(d, MaxHours) /\ Tick(d)

Spec == Init /\ [][Next]_vars

\* SpecFee: one handler at a time; every class of vehicle and customer, stays
\* of 0 to FeeHours hours in steps that reach 24.5h, 30h and 48.5h
FeeRequests ==
    {Request(vt, ct, FALSE, " P1 ") :
        vt \in {"small", "Medium", "large"}, ct \in {"regular", "vip"}}

FeeDurations == {Hours(6), Hours(24), Hours(24) + 1}

NextFee ==
    \/ /\ TicketLeft(FeeTickets)
       /\ \E data \in FeeRequests : RequestSlot(1, data)
    \/ VipCheck(1)
    \/ VipCreate(1)
    \/ VipUse(1)
    \/ Validate(1)
    \/ Allocate(1)
    \/ EmitAllocated(1)
    \/ GetOccupiedSlots(1)
    \/ \E stop \in StopPoints(1) : StatusLevels(1, stop)
    \/ EmitStatus(1)
    \/ \E ticket \in ReleaseTickets : ReleaseSlot(1, ticket)
    \/ ProcessExit(1)
    \/ EmitReleased(1)
    \/ HandlerReturn(1)
    \/ \E d \in FeeDurations : TimeLeft(d, FeeHours) /\ Tick(d)

SpecFee == Init /\ [][NextFee]_vars

\* SpecSusp: one plate parking again and again, each stay able to overstay;
\* the requests are handled on thread 1 and the releases on thread 2
SuspRequests == {Request("small", "regular", FALSE, "P1")}

NextSusp ==
    \/ \E i \in Threads :
         \/ /\ i = 1 /\ TicketLeft(SuspTickets)
            /\ \E data \in SuspRequests : RequestSlot(i, data)
         \/ Validate(i)
         \/ Allocate(i)
         \/ EmitAllocated(i)
         \/ GetOccupiedSlots(i)
         \/ \E stop \in StopPoints(i) : StatusLevels(i, stop)
         \/ EmitStatus(i)
         \/ /\ i = 2
            /\ \E ticket \in KnownTickets : ReleaseSlot(i, ticket)
         \/ ProcessExit(i)
         \/ EmitReleased(i)
         \/ HandlerReturn(i)
    \/ \E d \in Durations : TimeLeft(d, SuspHours) /\ Tick(d)

SpecSusp == Init /\ [][NextSusp]_vars

\* SpecVip: concurrent handlers; VIP requests for one plate while time passes
VipRequests == {Request("small", "vip", FALSE, "P1")}

VipDurations == {Hours(1)}

NextVip ==
    \/ \E i \in Threads :
         \/ /\ Lowest_idle(i) /\ TicketLeft(VipTickets)
            /\ \E data \in VipRequests : RequestSlot(i, data)
         \/ VipCheck(i)
         \/ VipCreate(i)
         \/ VipUse(i)
         \/ Validate(i)
         \/ Allocate(i)
         \/ EmitAllocated(i)
         \/ GetOccupiedSlots(i)
         \/ \E stop \in StopPoints(i) : StatusLevels(i, stop)
         \/ EmitStatus(i)
         \/ HandlerReturn(i)
    \/ \E d \in VipDurations : TimeLeft(d, VipHours) /\ Tick(d)

SpecVip == Init /\ [][NextVip]_vars

\* SpecAlloc: one handler at a time; small cars of three plates, Regular and
\* VIP, with and without EV charging, a medium car, and requests whose classes
\* are missing or outside the enumerations
AllocRequests ==
    {Request("small", ct, ev, plate) :
        ct \in {"regular", "vip"}, ev \in BOOLEAN, plate \in {"P1", "P2", "  "}}
    \cup {Request("Medium", "regular", FALSE, "P1")}

MalformedRequests ==
    {[Request("small", "vip", FALSE, "P1") EXCEPT !.vehicle_type = None],
     [Request("small", "vip", FALSE, "P1") EXCEPT !.customer_type = None],
     Request("bus", "vip", FALSE, "P1"),
     Request("small", "staff", FALSE, "P1")}

NextAlloc ==
    \/ /\ TicketLeft(AllocTickets)
       /\ \E data \in AllocRequests \cup MalformedRequests : RequestSlot(1, data)
    \/ VipCheck(1)
    \/ VipCreate(1)
    \/ VipUse(1)
    \/ Validate(1)
    \/ Allocate(1)
    \/ EmitAllocated(1)
    \/ GetOccupiedSlots(1)
    \/ \E stop \in StopPoints(1) : StatusLevels(1, stop)
    \/ EmitStatus(1)
    \/ \E ticket \in KnownTickets : ReleaseSlot(1, ticket)
    \/ ProcessExit(1)
    \/ EmitReleased(1)
    \/ HandlerReturn(1)

SpecAlloc == Init /\ [][NextAlloc]_vars

\* the same for the reads of the list of lines 435-447
ListStopPoints(i) ==
    {None} \cup {Some([cursor |-> k, sub |-> u]) :
                    k \in {m \in 1..Len(all_slots) : all_slots[m] \in HotSlots(i)},
                    u \in 2..6}

\* SpecStatus: request_slot and release_slot events handled on thread 1 while
\* thread 2 serves GET /api/status
StatusRequests == {Request("small", "regular", FALSE, "P1")}

NextStatus ==
    \/ /\ TicketLeft(StatusTickets)
       /\ \E data \in StatusRequests : RequestSlot(1, data)
    \/ Validate(1)
    \/ Allocate(1)
    \/ EmitAllocated(1)
    \/ EmitStatus(1)
    \/ \E ticket \in KnownTickets : ReleaseSlot(1, ticket)
    \/ ProcessExit(1)
    \/ EmitReleased(1)
    \/ ApiStatus(2)
    \/ ApiCounters(2)
    \/ ApiAvailable(2)
    \/ \E stop \in ListStopPoints(2) : ApiOccupiedSlots(2, stop)
    \/ \E i \in Threads :
         \/ GetOccupiedSlots(i)
         \/ \E stop \in StopPoints(i) : StatusLevels(i, stop)
         \/ HandlerReturn(i)
    \/ \E d \in Durations : TimeLeft(d, StatusHours) /\ Tick(d)

SpecStatus == Init /\ [][NextStatus]_vars

\* SpecPlate: concurrent handlers; small regular cars whose requests carry
\* no plate (the key is absent or empty, or the plate is blank), and an
\* entry_time of one of two days or none
PlateRequests ==
    {[Request("small", "regular", FALSE, "") EXCEPT !.entry_time = None],
     [Request("small", "regular", FALSE, "  ") EXCEPT !.entry_time = Some(Morning)],
     [Request("small", "regular", FALSE, "") EXCEPT !.entry_time = Some(Evening)],
     [Request("small", "regular", FALSE, "") EXCEPT !.entry_time = Some(NextDay)]}

NextPlate ==
    \E i \in Threads :
        \/ /\ TicketLeft(PlateTickets)
           /\ \E data \in PlateRequests : RequestSlot(i, data)
        \/ Validate(i)
        \/ Allocate(i)
        \/ EmitAllocated(i)
        \/ GetOccupiedSlots(i)
        \/ \E stop \in StopPoints(i) : StatusLevels(i, stop)
        \/ EmitStatus(i)
        \/ /\ Lowest_idle(i)
           /\ \E ticket \in KnownTickets : ReleaseSlot(i, ticket)
        \/ ProcessExit(i)
        \/ EmitReleased(i)
        \/ HandlerReturn(i)

SpecPlate == Init /\ [][NextPlate]_vars

TypeOK ==
    /\ now \in Nat
    /\ next_ticket \in Nat
    /\ \A p \in AllPlates : warnings[p] \in Nat

(* ------------------------------ claims -------------------------------- *)
\* the handlers that hold a live allocation: allocate_slot returned them a
\* slot and the ticket it issued is still active
Holders ==
    {i \in Threads : /\ handlers[i].kind = "request"
                     /\ handlers[i].slot # None
                     /\ Val(Val(handlers[i].vehicle).ticket_id) \in DOMAIN tickets}

EventNames(i) == [k \in 1..Len(handlers[i].events) |-> handlers[i].events[k].name]

\* C1: no double allocation.  Two active tickets never resolve to the same
\* slot, and two handlers whose allocations are both live never hold the same
\* slot, in every interleaving of the handlers.
NoDoubleAllocation ==
    /\ \A t1, t2 \in DOMAIN tickets : t1 # t2 => tickets[t1] # tickets[t2]
    /\ \A i, j \in Holders : i # j => handlers[i].slot # handlers[j].slot

\* two handlers hold live allocations at the same time
NoDoubleAllocationWitness ==
    /\ Cardinality(Holders) = 2
    /\ Cardinality(DOMAIN tickets) = 2

\* C2: bijection.  As many occupied slots as active tickets; every active
\* ticket resolves to an occupied slot whose vehicle carries that ticket; every
\* occupied slot is the target of exactly one active ticket.
Bijection ==
    /\ Cardinality(get_occupied_slots) = Cardinality(DOMAIN tickets)
    /\ \A t \in DOMAIN tickets :
          /\ slots[tickets[t]].is_occupied
          /\ slots[tickets[t]].vehicle # None
          /\ Val(slots[tickets[t]].vehicle).ticket_id = Some(t)
    /\ \A s \in get_occupied_slots :
          Cardinality({t \in DOMAIN tickets : tickets[t] = s}) = 1

\* one car has left and another is parked
BijectionWitness ==
    /\ DOMAIN exits # {}
    /\ Cardinality(DOMAIN tickets) = 1
    /\ Cardinality(get_occupied_slots) = 1

TicketsOfPlate(plate) ==
    {t \in DOMAIN tickets : Val(slots[tickets[t]].vehicle).license_plate = plate}

\* C3: no double parking.  A plate holds at most one active ticket at every
\* instant.
PlateSingleTicket ==
    \A p \in AllPlates : Cardinality(TicketsOfPlate(p)) <= 1

\* a handler takes its process_vehicle_exit step
ExitStep(i) ==
    /\ handlers[i].kind = "release" /\ handlers[i].pc = "exit"
    /\ handlers'[i].pc # "exit"

\* C4: exit is single-shot.  No ticket is exited successfully twice; a call on
\* an active ticket succeeds; a call on a ticket that is not active (already
\* exited) returns success=false with reason "ticket not found", carries no
\* fee, leaves slots, tickets and warnings as they were, and its handler ends
\* with that one error event.
ExitSingleShot ==
    /\ [](\A t \in DOMAIN exits : exits[t] = 1)
    /\ [][\A i \in Threads : ExitStep(i) =>
            LET t == Val(handlers[i].ticket) IN
            IF t \in DOMAIN tickets
            THEN /\ Val(handlers'[i].result).success
                 /\ t \notin DOMAIN tickets'
                 /\ t \notin DOMAIN exits
            ELSE /\ handlers'[i].result =
                        Some([success |-> FALSE, reason |-> "ticket not found"])
                 /\ handlers'[i].pc = "done"
                 /\ handlers'[i].events = <<Error("ticket not found")>>
                 /\ UNCHANGED <<slots, tickets, warnings, exits>>]_vars

\* the second exit of a ticket has been answered
ExitSingleShotWitness ==
    \E i \in Threads :
        /\ handlers[i].kind = "release" /\ handlers[i].pc = "done"
        /\ handlers[i].result # None
        /\ ~Val(handlers[i].result).success
        /\ Val(handlers[i].ticket) \in DOMAIN exits

\* C5: a release of an active ticket ends with a 'released' event followed by
\* the status broadcast, and no 'error' event.
ReleaseEmitsReleased ==
    \A i \in Threads :
        (/\ handlers[i].kind = "release" /\ handlers[i].pc = "done"
         /\ handlers[i].result # None
         /\ Val(handlers[i].result).success)
        => EventNames(i) = <<"released", "status_update">>

\* a handler takes its validate_vehicle_entry step
ValidateStep(i) ==
    /\ handlers[i].kind = "request" /\ handlers[i].pc = "validate"
    /\ handlers'[i].pc # "validate"

\* C6: suspension boundary.  A request validated while its plate has
\* WarningThreshold warnings (or more) is rejected as suspended and allocates
\* no slot; with one warning fewer it is not rejected as suspended, and is
\* admitted when the plate is not parked.
SuspensionBoundary ==
    /\ [][\A i \in Threads : ValidateStep(i) =>
            LET plate == Val(handlers[i].vehicle).license_plate IN
            /\ warnings[plate] >= WarningThreshold =>
                  /\ handlers'[i].pc = "done"
                  /\ handlers'[i].events = <<Error("suspended")>>
                  /\ handlers'[i].slot = None
                  /\ UNCHANGED <<slots, tickets, next_ticket>>
            /\ warnings[plate] = WarningThreshold - 1 =>
                  /\ handlers'[i].events # <<Error("suspended")>>
                  /\ SlotsOfPlate(plate) = {} => handlers'[i].pc = "allocate"]_vars
    /\ [](\A i \in Threads :
            (handlers[i].kind = "request" /\ handlers[i].slot # None)
            => handlers[i].events # <<Error("suspended")>>)

\* the plate has its third warning and its next request was refused
SuspensionBoundaryWitness ==
    \E i \in Threads :
        /\ handlers[i].kind = "request" /\ handlers[i].pc = "done"
        /\ handlers[i].events = <<Error("suspended")>>
        /\ warnings[Val(handlers[i].vehicle).license_plate] = WarningThreshold

\* a handler's process_vehicle_exit step on an active ticket: the vehicle,
\* the ticks it has been parked, and the result handed to the handler
ExitVehicle(i) == Val(slots[tickets[Val(handlers[i].ticket)]].vehicle)

ExitElapsed(i) == now - Val(slots[tickets[Val(handlers[i].ticket)]].allocation_time)

ActiveExitStep(i) == ExitStep(i) /\ Val(handlers[i].ticket) \in DOMAIN tickets

\* C7: VIP zero fee.  The exit of a VIP vehicle, made before the expiry of the
\* pass that entry processing recorded for its plate, has base_fee = 0 whatever
\* the elapsed time, overstays included.
VipZeroFee ==
    [][\A i \in Threads : ActiveExitStep(i) =>
          LET plate == ExitVehicle(i).license_plate IN
          (/\ ExitVehicle(i).customer_type = "VIP"
           /\ vip_passes[plate] # None
           /\ now < Val(vip_passes[plate]))
          => Val(handlers'[i].result).base_fee = 0]_vars

SuccessfulExit(i) ==
    /\ handlers[i].kind = "release"
    /\ handlers[i].result # None
    /\ Val(handlers[i].result).success

\* a VIP vehicle has left after more than TIME_LIMITS(VIP) and paid no base fee
VipZeroFeeWitness ==
    \E i \in Threads :
        /\ SuccessfulExit(i)
        /\ Val(handlers[i].result).vehicle.customer_type = "VIP"
        /\ Val(handlers[i].result).overstay
        /\ Val(handlers[i].result).base_fee = 0

\* the overstay penalty of a Regular stay of h ticks
RegularPenalty(h) ==
    IF h > Hours(RegularTimeLimit)
    THEN PenaltyPerHour * (h - Hours(RegularTimeLimit)) ELSE 0

\* C8: exit fee arithmetic of a Regular vehicle that is not a re-entry, for
\* h elapsed ticks: base_fee = dailyRate * ceil(h/24h); the penalty is
\* penaltyPerHour per hour beyond the limit; total_fee = base_fee + 0 +
\* penalty; an overstay records exactly one warning.  30h for a Small car:
\* 200, 120, 0 and 320.
RegularFeeArithmetic ==
    [][\A i \in Threads : ActiveExitStep(i) =>
          LET v == ExitVehicle(i)
              h == ExitElapsed(i)
              res == Val(handlers'[i].result)
          IN  (v.customer_type = "Regular" /\ v.re_entry_count = 0) =>
              /\ res.base_fee = Money(DAILY_RATES(v.vehicle_type)) * CeilDiv(h, Hours(24))
              /\ res.re_entry_fee = 0
              /\ res.total_fee = res.base_fee + res.re_entry_fee + RegularPenalty(h)
              /\ res.overstay = (h > Hours(RegularTimeLimit))
              /\ warnings'[v.license_plate] =
                    warnings[v.license_plate] + (IF res.overstay THEN 1 ELSE 0)
              /\ (v.vehicle_type = "Small" /\ h = Hours(30)) =>
                    /\ res.base_fee = Money(200)
                    /\ res.total_fee - res.base_fee = Money(120)
                    /\ res.total_fee = Money(320)
                    /\ res.overstay
                    /\ res.warnings = warnings[v.license_plate] + 1]_vars

\* the Small Regular car of the scenario has left after 30 hours
RegularFeeArithmeticWitness ==
    \E i \in Threads :
        /\ SuccessfulExit(i)
        /\ Val(handlers[i].result).vehicle.customer_type = "Regular"
        /\ Val(handlers[i].result).vehicle.vehicle_type = "Small"
        /\ Val(handlers[i].result).base_fee = Money(200)
        /\ Val(handlers[i].result).total_fee = Money(320)
        /\ Val(handlers[i].result).warnings = 1
        /\ warnings["P1"] = 1

\* C9: overstay monotonicity.  A Regular stay longer than TIME_LIMITS(Regular)
\* by any amount has overstay = true and a total_fee strictly above
\* dailyRate * ceil(elapsed/24h).
OverstayMonotonic ==
    [][\A i \in Threads : ActiveExitStep(i) =>
          LET v == ExitVehicle(i)
              h == ExitElapsed(i)
              res == Val(handlers'[i].result)
          IN  (v.customer_type = "Regular" /\ h > Hours(RegularTimeLimit)) =>
              /\ res.overstay
              /\ res.total_fee >
                    Money(DAILY_RATES(v.vehicle_type)) * CeilDiv(h, Hours(24))]_vars

\* a Regular car has left less than an hour over its limit
OverstayMonotonicWitness ==
    \E i \in Threads :
        /\ SuccessfulExit(i)
        /\ Val(handlers[i].result).vehicle.customer_type = "Regular"
        /\ Val(handlers[i].result).overstay
        /\ Val(handlers[i].result).total_fee - Val(handlers[i].result).base_fee
              - Val(handlers[i].result).re_entry_fee < Money(PenaltyPerHour)

\* C10: re-entry surcharge.  The exit of a stay whose ticket was issued to a
\* plate that had left before carries the flat re-entry fee, the vehicle's
\* re-entry count having been incremented once.
ReEntrySurcharge ==
    \A i \in Threads :
        (SuccessfulExit(i) /\ Val(handlers[i].ticket) \in returning) =>
            /\ Val(handlers[i].result).vehicle.re_entry_count = 1
            /\ Val(handlers[i].result).re_entry_fee = Money(ReEntryFee)

\* the handlers that have attached a pass expiry to their vehicle and have
\* not yet answered
PassHolders ==
    {i \in Threads : /\ handlers[i].kind = "request"
                     /\ handlers[i].pc \in {"validate", "allocate"}
                     /\ Val(handlers[i].vehicle).vip_pass_expiry # None}

\* C11: VIP pass stability.  Entry processing never overwrites a registry
\* entry whose expiry is still in the future, and the expiry a handler has
\* attached to its vehicle is the registry entry of the vehicle's plate, in
\* every interleaving of the request_slot handlers of one plate.
VipPassStable ==
    [][/\ \A p \in AllPlates :
            (vip_passes[p] # None /\ now <= Val(vip_passes[p]))
            => vip_passes'[p] = vip_passes[p]
       /\ \A i \in PassHolders' :
            Val(handlers'[i].vehicle).vip_pass_expiry
               = vip_passes'[Val(handlers'[i].vehicle).license_plate]]_vars

\* the answers handler i has sent to its requester
Answers(i) ==
    {k \in 1..Len(handlers[i].events) :
        handlers[i].events[k].name \in {"slot_allocated", "error"}}

\* C12: a request_slot handler sends its requester exactly one of
\* 'slot_allocated' and 'error', never both; a status_update is broadcast only
\* after the 'slot_allocated' event of a successful allocation; also when
\* other handlers allocate or release while the status is being built.
RequestAnswersOnce ==
    \A i \in Threads : handlers[i].kind = "request" =>
        /\ Cardinality(Answers(i)) <= 1
        /\ handlers[i].pc = "done" => Cardinality(Answers(i)) = 1
        /\ \A k \in 1..Len(handlers[i].events) :
              handlers[i].events[k].name = "status_update" =>
                 \E j \in 1..(k - 1) : handlers[i].events[j].name = "slot_allocated"

\* a request whose vehicle_type or customer_type is missing or names no member
\* of the enumerations
Malformed(data) ==
    \/ data.vehicle_type = None
    \/ data.customer_type = None
    \/ Capitalize(Val(data.vehicle_type)) \notin {"Small", "Medium", "Large"}
    \/ customer_type_str(Val(data.customer_type)) \notin {"Regular", "VIP"}

\* handler thread i takes a request_slot event
RequestStep(i) == handlers[i].kind = "idle" /\ handlers'[i].kind = "request"

\* C13: a request_slot whose vehicle_type or customer_type is missing or
\* outside the enumerations ends in a single 'error' event, allocates no slot
\* and leaves slots, tickets, warnings and VIP passes as they were.
MalformedRejected ==
    /\ [][\A i \in Threads :
            (RequestStep(i) /\ Malformed(Val(handlers'[i].data))) =>
                /\ handlers'[i].pc = "done"
                /\ Len(handlers'[i].events) = 1
                /\ handlers'[i].events[1].name = "error"
                /\ UNCHANGED <<slots, tickets, warnings, vip_passes, next_ticket>>]_vars
    /\ [](\A i \in Threads :
            (handlers[i].kind = "request" /\ Malformed(Val(handlers[i].data))) =>
                /\ handlers[i].pc = "done"
                /\ EventNames(i) = <<"error">>
                /\ handlers[i].vehicle = None
                /\ handlers[i].slot = None)

\* a request for an unknown vehicle class has been refused while a car is
\* parked, its VIP plate without a pass
MalformedRejectedWitness ==
    \E i \in Threads :
        /\ handlers[i].kind = "request" /\ handlers[i].pc = "done"
        /\ Val(handlers[i].data).vehicle_type = Some("bus")
        /\ handlers[i].events = <<Error("Invalid vehicle type or customer type provided.")>>
        /\ DOMAIN tickets # {}
        /\ vip_passes[license_plate_of(Val(handlers[i].data))] = None

\* the handlers between the test of lines 96-97 and the write of line 100 or
\* the read of line 105 that follows it
VipSection ==
    {i \in Threads : /\ handlers[i].kind = "request"
                     /\ handlers[i].pc \in {"vip_create", "vip_use"}}

\* C14: lock discipline.  The VIP-pass registry is read and written only
\* under the engine-wide lock, and the check-then-create of request_slot is
\* one critical section of that lock: no two handlers are inside it at once.
VipCheckThenCreateLocked == Cardinality(VipSection) <= 1

\* the slots a snapshot reports as occupied
ReportedOccupied(levels) == {d \in levels : d.occupied}

\* C15: status snapshots are serialized with the mutators.  Every snapshot of
\* emit_status and api_status shows one engine state: its 'occupied' counter
\* is the number of slots it reports as occupied, each of them has a ticket,
\* api_status lists as many occupied slots, and building the snapshot never
\* faults (no response 500, no 'error' after 'slot_allocated' or 'released').
SnapshotConsistent ==
    \A i \in Threads : \A k \in 1..Len(handlers[i].events) :
        LET e == handlers[i].events[k] IN
        /\ e.name = "status_update" =>
              /\ e.occupied = Cardinality(ReportedOccupied(e.levels))
              /\ \A d \in ReportedOccupied(e.levels) : d.ticket # None
        /\ e.name = "response_200" =>
              /\ e.counters.occupied = Cardinality(ReportedOccupied(e.levels))
              /\ e.counters.occupied = Cardinality(e.occupied_slots)
              /\ \A d \in ReportedOccupied(e.levels) : d.ticket # None
        /\ e.name # "response_500"
        /\ (e.name = "error" /\ k > 1) =>
              handlers[i].events[k - 1].name \notin {"slot_allocated", "released"}

\* C16: slot occupancy invariant.  In every state and for every slot the
\* occupancy flag is set iff the slot has a vehicle iff it has an allocation
\* timestamp; a step that changes a slot either sets all three on a slot
\* that had none (allocate) or clears all three on a slot that had them
\* (exit).
SlotOccupancy ==
    /\ [](\A s \in SlotIds :
            /\ slots[s].is_occupied = (slots[s].vehicle # None)
            /\ slots[s].is_occupied = (slots[s].allocation_time # None))
    /\ [][\A s \in SlotIds : slots'[s] # slots[s] =>
            \/ /\ slots[s] = [is_occupied |-> FALSE, vehicle |-> None,
                               allocation_time |-> None]
               /\ slots'[s].is_occupied
               /\ slots'[s].vehicle # None
               /\ slots'[s].allocation_time = Some(now)
            \/ /\ slots[s].is_occupied
               /\ slots[s].vehicle # None
               /\ slots[s].allocation_time # None
               /\ slots'[s] = [is_occupied |-> FALSE, vehicle |-> None,
                                allocation_time |-> None]]_vars

\* a slot has been cleared by an exit while another slot is occupied
SlotOccupancyWitness ==
    /\ \E i \in Threads :
          /\ SuccessfulExit(i)
          /\ ~slots[Val(handlers[i].result).slot].is_occupied
          /\ slots[Val(handlers[i].result).slot].allocation_time = None
    /\ \E s \in SlotIds : slots[s].is_occupied /\ slots[s].allocation_time # None

\* C17: EV routing.  A vehicle allocated with wantsEV = true is placed in an
\* EV-section slot and in no other, also when every EV slot of its class is
\* occupied.
EvRouting ==
    \A i \in Threads :
        (handlers[i].kind = "request" /\ handlers[i].is_ev /\ handlers[i].slot # None)
        => Val(handlers[i].slot).section = "EV"

\* a handler takes its allocate_slot step
AllocateStep(i) ==
    /\ handlers[i].kind = "request" /\ handlers[i].pc = "allocate"
    /\ handlers'[i].pc # "allocate"

\* the unoccupied slots of a class in a section
Unoccupied(vehicle_type, section) ==
    {s \in SlotIds : /\ s.vehicle_type = vehicle_type /\ s.section = section
                     /\ ~slots[s].is_occupied /\ slots[s].vehicle = None}

QueryStep(i) ==
    /\ handlers[i].pc \in {"status", "levels", "counters"}
    /\ handlers'[i] # handlers[i]

\* the statement of C19 as it is written: validateEntry, allocateSlot,
\* expiredSlots and the queries all leave the warning registry, the slot
\* inventory and the ticket map unchanged
FrameIncludingAllocate ==
    [][\A i \in Threads :
          (ValidateStep(i) \/ AllocateStep(i) \/ QueryStep(i))
          => UNCHANGED <<warnings, slots, tickets>>]_vars

\* C19: warning counts are monotonic and change only at exit.  A count never
\* decreases; it changes only in a processExit of a vehicle of that plate
\* whose stay was an overstay, and then by exactly one; validateEntry,
\* expiredSlots and the other queries leave warnings, slots and tickets
\* unchanged, allocateSlot leaves the warnings unchanged; a suspended plate
\* stays suspended and is rejected by every validateEntry.
WarningsOnlyAtExit ==
    [][/\ \A p \in AllPlates :
            /\ warnings'[p] >= warnings[p]
            /\ warnings'[p] # warnings[p] =>
                  \E i \in Threads :
                     /\ ActiveExitStep(i)
                     /\ ExitVehicle(i).license_plate = p
                     /\ ExitElapsed(i) > Hours(TIME_LIMITS(ExitVehicle(i).customer_type))
            /\ warnings[p] >= WarningThreshold => warnings'[p] >= WarningThreshold
       /\ \A i \in Threads :
            /\ ActiveExitStep(i) =>
                  warnings'[ExitVehicle(i).license_plate] =
                     warnings[ExitVehicle(i).license_plate]
                     + (IF ExitElapsed(i) > Hours(TIME_LIMITS(ExitVehicle(i).customer_type))
                        THEN 1 ELSE 0)
            /\ (ValidateStep(i) \/ QueryStep(i)) => UNCHANGED <<warnings, slots, tickets>>
            /\ AllocateStep(i) => UNCHANGED warnings
            /\ (/\ ValidateStep(i)
                /\ warnings[Val(handlers[i].vehicle).license_plate] >= WarningThreshold)
               => /\ handlers'[i].pc = "done"
                  /\ handlers'[i].events = <<Error("suspended")>>]_vars

\* the third overstay of the plate has been penalised at its exit, and the
\* next request of the plate is refused
WarningsOnlyAtExitWitness ==
    /\ warnings["P1"] = WarningThreshold
    /\ \E i \in Threads :
          /\ SuccessfulExit(i)
          /\ Val(handlers[i].result).overstay
          /\ Val(handlers[i].result).warnings = WarningThreshold
    /\ \E i \in Threads :
          /\ handlers[i].kind = "request" /\ handlers[i].pc = "done"
          /\ handlers[i].events = <<Error("suspended")>>

\* the answers of a refused entry: the reasons of validate_vehicle_entry and
\* the no-slot message
Refusals ==
    {Error("suspended"), Error("already parked"),
     Error("No suitable slot available. Please try again later.")}

\* C20: a request_slot that ends in 'error' because validation failed or no
\* slot was available has been given no slot, and none of its steps changes
\* the slot inventory, the ticket map or the warning registry; of the VIP-pass
\* registry it changes at most the entry of its own plate, and that entry
\* stays (the pass created before validation is not rolled back).
RefusedRequestFrame ==
    /\ [][\A i \in Threads :
            (/\ handlers'[i].kind = "request"
             /\ handlers'[i] # handlers[i]
             /\ handlers'[i].slot = None
             /\ handlers'[i].vehicle # None) =>
                /\ UNCHANGED <<slots, tickets, warnings, next_ticket>>
                /\ \A p \in AllPlates \ {Val(handlers'[i].vehicle).license_plate} :
                      vip_passes'[p] = vip_passes[p]
                /\ (handlers'[i].pc = "done"
                    /\ Val(handlers'[i].vehicle).vip_pass_expiry # None) =>
                      /\ vip_passes' = vip_passes
                      /\ vip_passes[Val(handlers'[i].vehicle).license_plate]
                            = Val(handlers'[i].vehicle).vip_pass_expiry]_vars
    /\ [](\A i \in Threads :
            (/\ handlers[i].kind = "request" /\ handlers[i].pc = "done"
             /\ \E k \in 1..Len(handlers[i].events) : handlers[i].events[k] \in Refusals)
            => /\ handlers[i].slot = None
               /\ Len(handlers[i].events) = 1)

\* a VIP request for a plate that is parked as a Regular customer has been
\* refused; the pass it created is in the registry
RefusedRequestFrameWitness ==
    \E i \in Threads :
        /\ handlers[i].kind = "request" /\ handlers[i].pc = "done"
        /\ handlers[i].events = <<Error("already parked")>>
        /\ Val(handlers[i].vehicle).customer_type = "VIP"
        /\ vip_passes[Val(handlers[i].vehicle).license_plate] = Some(now + Hours(24 * VipPassDays))
        /\ \A s \in SlotsOfPlate(Val(handlers[i].vehicle).license_plate) :
              Val(slots[s].vehicle).customer_type = "Regular"
        /\ DOMAIN exits = {}

\* a request that carries no plate: line 83 generates one
PlateLess(data) == Strip(data.license_plate) = ""

\* the first ten characters of a request's entry_time, None without the key
EntryDate(data) ==
    IF data.entry_time = None THEN None ELSE Some(FirstTen(Val(data.entry_time)))

\* the handlers of plate-less requests that have built their Vehicle
Generated ==
    {i \in Threads : /\ handlers[i].kind = "request"
                     /\ handlers[i].vehicle # None
                     /\ PlateLess(Val(handlers[i].data))}

\* C21: the plate generated for a request without a plate is a function of
\* the first ten characters of its entry_time (AUTO-NOTIME without an
\* entry_time), so plate-less requests of one entry date carry one plate; and
\* while a ticket of that plate is active, a plate-less request of the same
\* date is refused as already parked when it is validated, and is given no
\* slot.
GeneratedPlateRefused ==
    /\ [](\A i \in Generated :
            /\ Val(handlers[i].data).entry_time = None
                  => Val(handlers[i].vehicle).license_plate = "AUTO-NOTIME"
            /\ \A j \in Generated :
                  EntryDate(Val(handlers[i].data)) = EntryDate(Val(handlers[j].data))
                  => Val(handlers[i].vehicle).license_plate
                        = Val(handlers[j].vehicle).license_plate)
    /\ [][\A i \in Generated :
            LET plate == Val(handlers[i].vehicle).license_plate IN
            /\ (ValidateStep(i) /\ TicketsOfPlate(plate) # {}
                                /\ warnings[plate] < WarningThreshold)
                  => /\ handlers'[i].pc = "done"
                     /\ handlers'[i].events = <<Error("already parked")>>
            /\ (TicketsOfPlate(plate) # {} /\ handlers[i].slot = None)
                  => handlers'[i].slot = None]_vars

====
